---- MODULE Spec2Model ----
(***************************************************************************)
(* A model of graphics/affine.go: the 3x3 affine matrix algebra (Mul,      *)
(* Scale, Rotate, Shear, Translate, Center, CenterFit) and the pixel       *)
(* pipeline (Transform, TransformCenter, pt, inBounds).                    *)
(*                                                                         *)
(* float64 values are modelled as exact rationals <<n, d>> in lowest terms *)
(* (d > 0) together with the three IEEE-754 special values, written with a *)
(* zero denominator: <<1, 0>> is +Inf, <<-1, 0>> is -Inf and <<0, 0>> is   *)
(* NaN.  The arithmetic follows IEEE-754 on the special values (Inf - Inf, *)
(* 0 * Inf and 0 / 0 are NaN; every ordered comparison with NaN is false). *)
(* Rounding and overflow of finite values are not modelled, and zero is    *)
(* unsigned.                                                               *)
(***************************************************************************)
EXTENDS Integers, Sequences, FiniteSets, TLC

VARIABLES
    mat,      \* the receiver matrix (the Affine value a method is called on)
    dst,      \* the dst argument: [kind, id, rect]
    src,      \* the src argument: [kind, id, rect]
    heap,     \* pixel storage: buffer id -> (point -> colour)
    heap0,    \* the heap when the call was made
    pc,       \* position of the call: "idle", "loop", "done"
    err,      \* the os.Error returned: "none" (not returned yet), "nil" or a message
    pending,  \* destination pixels the loop has not visited yet
    order,    \* the schedule of the pixel loop: "rowmajor" (the code) or "any"
    calls,    \* the sampler invocations made so far: <<x, y, sx, sy>>
    writes,   \* how many times the sampler wrote each destination pixel
    built,    \* the chain of operations that produced the receiver matrix
    regs,     \* matrix registers of the algebra specifications
    hist      \* the methods called (pipeline); the matrix after each operation (algebra)

vars == <<mat, dst, src, heap, heap0, pc, err, pending, order, calls, writes,
          built, regs, hist>>

----------------------------------------------------------------------------
(* float64 *)

Abs(n) == IF n < 0 THEN -n ELSE n

Sign(n) == IF n > 0 THEN 1 ELSE IF n < 0 THEN -1 ELSE 0

RECURSIVE Gcd(_, _)
Gcd(m, n) == IF n = 0 THEN m ELSE Gcd(n, m % n)

\* The value n/d; d = 0 gives +Inf, -Inf or NaN by the sign of n.
F(n, d) ==
    IF d = 0 THEN <<Sign(n), 0>>
    ELSE LET g == Gcd(Abs(n), Abs(d))
             s == IF d < 0 THEN -1 ELSE 1
         IN  <<(s * n) \div g, (s * d) \div g>>

NaN == <<0, 0>>
PInf == <<1, 0>>
NInf == <<-1, 0>>
Zero == <<0, 1>>
One == <<1, 1>>
Half == <<1, 2>>

\* float64(i) of an int
Float(i) == <<i, 1>>

IsNaN(x) == x = NaN
IsInf(x) == x = PInf \/ x = NInf
IsFinite(x) == x[2] # 0

FNeg(x) == <<-x[1], x[2]>>

FAdd(x, y) ==
    IF IsNaN(x) \/ IsNaN(y) THEN NaN
    ELSE IF IsInf(x) /\ IsInf(y) THEN (IF x = y THEN x ELSE NaN)
    ELSE IF IsInf(x) THEN x
    ELSE IF IsInf(y) THEN y
    ELSE LET g == Gcd(x[2], y[2])
         IN  F(x[1] * (y[2] \div g) + y[1] * (x[2] \div g), (x[2] \div g) * y[2])

FSub(x, y) == FAdd(x, FNeg(y))

\* The product, reduced before multiplying; a zero denominator (Inf, NaN)
\* makes the product's denominator zero, and F gives its sign.
FMul(x, y) ==
    IF x[2] = 0 \/ y[2] = 0 THEN F(x[1] * y[1], 0)
    ELSE LET g == Gcd(Abs(x[1]), y[2])
             h == Gcd(Abs(y[1]), x[2])
         IN  F((x[1] \div g) * (y[1] \div h), (x[2] \div h) * (y[2] \div g))

FRecip(x) ==
    IF x[1] > 0 THEN <<x[2], x[1]>>
    ELSE IF x[1] < 0 THEN <<-x[2], -x[1]>>
    ELSE <<x[2], 0>>

FDiv(x, y) == FMul(x, FRecip(y))

\* x < y
FLt(x, y) ==
    /\ ~IsNaN(x)
    /\ ~IsNaN(y)
    /\ x # y
    /\ \/ x = NInf
       \/ y = PInf
       \/ IsFinite(x) /\ IsFinite(y) /\ x[1] * y[2] < y[1] * x[2]

\* x >= y
FGe(x, y) ==
    /\ ~IsNaN(x)
    /\ ~IsNaN(y)
    /\ \/ x = y
       \/ FLt(y, x)

\* x == y
FEq(x, y) == ~IsNaN(x) /\ ~IsNaN(y) /\ x = y

\* math.Floor of a finite value, as an int
Floor(x) == x[1] \div x[2]

----------------------------------------------------------------------------
(* Affine *)

\* Affine{m0, ..., m8}: M(i,j) is Affine[i*3+j].
Affine(m) == [i \in 0..8 |-> m[i + 1]]

I == Affine(<<One, Zero, Zero,
              Zero, One, Zero,
              Zero, Zero, One>>)

\* x1*y1 + x2*y2 + x3*y3, summed left to right
Dot(x1, y1, x2, y2, x3, y3) == FAdd(FAdd(FMul(x1, y1), FMul(x2, y2)), FMul(x3, y3))

\* Mul with b[7] for b[8] in the last term of element 5.
MulWrongIndex5(a, b) ==
    Affine(<<Dot(a[0], b[0], a[1], b[3], a[2], b[6]),
             Dot(a[0], b[1], a[1], b[4], a[2], b[7]),
             Dot(a[0], b[2], a[1], b[5], a[2], b[8]),
             Dot(a[3], b[0], a[4], b[3], a[5], b[6]),
             Dot(a[3], b[1], a[4], b[4], a[5], b[7]),
             Dot(a[3], b[2], a[4], b[5], a[5], b[7]),
             Dot(a[6], b[0], a[7], b[3], a[8], b[6]),
             Dot(a[6], b[1], a[7], b[4], a[8], b[7]),
             Dot(a[6], b[2], a[7], b[5], a[8], b[8])>>)

\* Mul with b[6] for b[8] in the last term of element 2.
MulWrongIndex2(a, b) ==
    Affine(<<Dot(a[0], b[0], a[1], b[3], a[2], b[6]),
             Dot(a[0], b[1], a[1], b[4], a[2], b[7]),
             Dot(a[0], b[2], a[1], b[5], a[2], b[6]),
             Dot(a[3], b[0], a[4], b[3], a[5], b[6]),
             Dot(a[3], b[1], a[4], b[4], a[5], b[7]),
             Dot(a[3], b[2], a[4], b[5], a[5], b[8]),
             Dot(a[6], b[0], a[7], b[3], a[8], b[6]),
             Dot(a[6], b[1], a[7], b[4], a[8], b[7]),
             Dot(a[6], b[2], a[7], b[5], a[8], b[8])>>)

Mul(a, b) ==
    Affine(<<Dot(a[0], b[0], a[1], b[3], a[2], b[6]),
             Dot(a[0], b[1], a[1], b[4], a[2], b[7]),
             Dot(a[0], b[2], a[1], b[5], a[2], b[8]),
             Dot(a[3], b[0], a[4], b[3], a[5], b[6]),
             Dot(a[3], b[1], a[4], b[4], a[5], b[7]),
             Dot(a[3], b[2], a[4], b[5], a[5], b[8]),
             Dot(a[6], b[0], a[7], b[3], a[8], b[6]),
             Dot(a[6], b[1], a[7], b[4], a[8], b[7]),
             Dot(a[6], b[2], a[7], b[5], a[8], b[8])>>)

Scale(a, x, y) ==
    Mul(a, Affine(<<FDiv(One, x), Zero, Zero,
                    Zero, FDiv(One, y), Zero,
                    Zero, Zero, One>>))

\* The angles whose sine and cosine are rational: the quarter turns and the
\* angles of the 3-4-5 triangle.
Angles == {"0", "atan(3/4)", "atan(4/3)", "pi/2", "pi", "3pi/2", "-atan(3/4)"}

\* math.Sincos(angle): <<sin, cos>>
Sincos(angle) ==
    CASE angle = "0" -> <<Zero, One>>
      [] angle = "atan(3/4)" -> <<F(3, 5), F(4, 5)>>
      [] angle = "atan(4/3)" -> <<F(4, 5), F(3, 5)>>
      [] angle = "pi/2" -> <<One, Zero>>
      [] angle = "pi" -> <<Zero, FNeg(One)>>
      [] angle = "3pi/2" -> <<FNeg(One), Zero>>
      [] angle = "-atan(3/4)" -> <<F(-3, 5), F(4, 5)>>

Rotate(a, angle) ==
    LET s == Sincos(angle)[1]
        c == Sincos(angle)[2]
    IN  Mul(a, Affine(<<c, s, Zero,
                        FNeg(s), c, Zero,
                        Zero, Zero, One>>))

Shear(a, x, y) ==
    LET d == FSub(One, FMul(x, y))
    IN  Mul(a, Affine(<<FDiv(One, d), FDiv(FNeg(x), d), Zero,
                        FDiv(FNeg(y), d), FDiv(One, d), Zero,
                        Zero, Zero, One>>))

\* Translate with the matrix laid out column by column.
TranslateTransposed(a, x, y) ==
    Mul(a, Affine(<<One, Zero, Zero,
                    Zero, One, Zero,
                    FNeg(x), FNeg(y), One>>))

Translate(a, x, y) ==
    Mul(a, Affine(<<One, Zero, FNeg(x),
                    Zero, One, FNeg(y),
                    Zero, Zero, One>>))

\* Center with the two translations exchanged.
CenterSignsSwapped(a, x, y) == Translate(Mul(Translate(I, x, y), a), FNeg(x), FNeg(y))

Center(a, x, y) == Translate(Mul(Translate(I, FNeg(x), FNeg(y)), a), x, y)

\* image.Rectangle: [Min |-> [X, Y], Max |-> [X, Y]], half-open.
Rect(x0, y0, x1, y1) == [Min |-> [X |-> x0, Y |-> y0], Max |-> [X |-> x1, Y |-> y1]]

Dx(r) == r.Max.X - r.Min.X

Dy(r) == r.Max.Y - r.Min.Y

Two == <<2, 1>>

\* CenterFit with the halving done on the ints: float64(dst.Dx() / 2).
CenterFitIntHalf(a, d, s) ==
    LET dx == FAdd(Float(d.Min.X), Float(Dx(d) \div 2))
        dy == FAdd(Float(d.Min.Y), Float(Dy(d) \div 2))
        sx == FAdd(Float(s.Min.X), Float(Dx(s) \div 2))
        sy == FAdd(Float(s.Min.Y), Float(Dy(s) \div 2))
    IN  Translate(Mul(Translate(I, FNeg(sx), FNeg(sy)), a), dx, dy)

CenterFit(a, d, s) ==
    LET dx == FAdd(Float(d.Min.X), FDiv(Float(Dx(d)), Two))
        dy == FAdd(Float(d.Min.Y), FDiv(Float(Dy(d)), Two))
        sx == FAdd(Float(s.Min.X), FDiv(Float(Dx(s)), Two))
        sy == FAdd(Float(s.Min.Y), FDiv(Float(Dy(s)), Two))
    IN  Translate(Mul(Translate(I, FNeg(sx), FNeg(sy)), a), dx, dy)

\* pt at the pixel's corner: without the + 0.5.
ptCorner(a, x0, y0) ==
    LET fx == Float(x0)
        fy == Float(y0)
        x1 == FAdd(FAdd(FMul(fx, a[0]), FMul(fy, a[1])), a[2])
        y1 == FAdd(FAdd(FMul(fx, a[3]), FMul(fy, a[4])), a[5])
    IN  <<x1, y1>>

\* pt: the source coordinate of the centre of destination pixel (x0, y0)
pt(a, x0, y0) ==
    LET fx == FAdd(Float(x0), Half)
        fy == FAdd(Float(y0), Half)
        x1 == FAdd(FAdd(FMul(fx, a[0]), FMul(fy, a[1])), a[2])
        y1 == FAdd(FAdd(FMul(fx, a[3]), FMul(fy, a[4])), a[5])
    IN  <<x1, y1>>

inBounds(b, x, y) ==
    IF FLt(x, Float(b.Min.X)) \/ FGe(x, Float(b.Max.X)) THEN FALSE
    ELSE IF FLt(y, Float(b.Min.Y)) \/ FGe(y, Float(b.Max.Y)) THEN FALSE
    ELSE TRUE

----------------------------------------------------------------------------
(* Building matrices: an operation is a tuple <<name, arguments...>> *)

ApplyOp(a, op) ==
    CASE op[1] = "Scale" -> Scale(a, op[2], op[3])
      [] op[1] = "Rotate" -> Rotate(a, op[2])
      [] op[1] = "Shear" -> Shear(a, op[2], op[3])
      [] op[1] = "Translate" -> Translate(a, op[2], op[3])
      [] op[1] = "Center" -> Center(a, op[2], op[3])
      [] op[1] = "CenterFit" -> CenterFit(a, op[2], op[3])
      [] op[1] = "Mul" -> Mul(a, op[2])

\* The chain I.op1(...).op2(...)... of a sequence of operations
RECURSIVE Build(_)
Build(ops) ==
    IF ops = <<>> THEN I
    ELSE ApplyOp(Build(SubSeq(ops, 1, Len(ops) - 1)), ops[Len(ops)])

----------------------------------------------------------------------------
(* Images *)

\* The largest coordinate of the rectangles the calls are made with.
MaxCoord == 2

\* The colour a caller pre-fills a destination with; the source pixels hold
\* the colours 1 .. Sentinel - 1.
Sentinel == 7

Points(r) == {<<x, y>> : x \in r.Min.X .. r.Max.X - 1, y \in r.Min.Y .. r.Max.Y - 1}

\* image.NewRGBA(r): a zeroed buffer
NewRGBA(r) == [p \in Points(r) |-> 0]

\* draw.Draw(dst, r, src, sp, draw.Src): the pixels of r are replaced by the
\* source's, the rest of dst is kept.
Draw(dstpix, r, srcpix, sp) ==
    [p \in DOMAIN dstpix |->
        LET q == <<p[1] - r.Min.X + sp.X, p[2] - r.Min.Y + sp.Y>>
        IN  IF p \in Points(r) /\ q \in DOMAIN srcpix THEN srcpix[q] ELSE dstpix[p]]

NilImage == [kind |-> "nil", id |-> 0, Rect |-> Rect(0, 0, 0, 0)]

Bounds(img) == img.Rect

\* A source image whose pixels all differ: 1, 2, 3, ... in row-major order.
Pattern(r) == [p \in Points(r) |-> 1 + (p[2] - r.Min.Y) * Dx(r) + (p[1] - r.Min.X)]

Fill(r, c) == [p \in Points(r) |-> c]

\* What the sampler may write for a source coordinate it is not specified
\* for (non-finite, or outside the source): some colour.
Unspecified == {0, Sentinel}

\* The colour the sampler computes from the source buffer: the source pixel
\* that holds the coordinate (so a pixel's centre gives that pixel's value).
Sample(srcpix, sx, sy) ==
    IF IsFinite(sx) /\ IsFinite(sy) /\ <<Floor(sx), Floor(sy)>> \in DOMAIN srcpix
    THEN {srcpix[<<Floor(sx), Floor(sy)>>]}
    ELSE Unspecified

\* binterpRGBA(dst, x, y, src, sx, sy): reads buffer s, writes pixel (x, y) of
\* buffer d, and nothing else.  The heaps it may leave.
binterpRGBA(h, d, x, y, s, sx, sy) ==
    {[h EXCEPT ![d][<<x, y>>] = col] : col \in Sample(h[s], sx, sy)}

\* srcRgba, ok := src.(*image.RGBA): the buffer the loop reads
SrcRgba == IF src.kind = "RGBA" THEN src.id ELSE 3

\* dstRgba, ok := dst.(*image.RGBA): the buffer the loop writes
DstRgba == IF dst.kind = "RGBA" THEN dst.id ELSE 4

\* The first pixel of a set in the order of the loop: rows, then columns.
RowMajorFirst(ps) ==
    CHOOSE p \in ps : \A q \in ps : p[2] < q[2] \/ (p[2] = q[2] /\ p[1] <= q[1])

----------------------------------------------------------------------------
(* Transform and TransformCenter *)

\* Lines 49-60 of Transform: srcRgba and dstRgba are made ready.
Prepare(h) ==
    (IF src.kind = "RGBA" THEN <<>>
     ELSE 3 :> Draw(NewRGBA(Bounds(src)), Bounds(src), h[src.id], Bounds(src).Min))
    @@ (IF dst.kind = "RGBA" THEN <<>> ELSE 4 :> NewRGBA(Bounds(dst)))
    @@ h

Enter(m) ==
    /\ mat' = m
    /\ heap' = Prepare(heap)
    /\ pending' = Points(Bounds(dst))
    /\ writes' = [p \in Points(Bounds(dst)) |-> 0]
    /\ pc' = "loop"
    /\ err' = "none"

\* The nil check returning nil for the error.
FailReturnsNil(msg) ==
    /\ pc' = "done"
    /\ err' = "nil"
    /\ UNCHANGED <<mat, heap, pending, writes, built>>

\* return os.NewError(msg)
Fail(msg) ==
    /\ pc' = "done"
    /\ err' = msg
    /\ UNCHANGED <<mat, heap, pending, writes, built>>

Transform ==
    /\ pc = "idle"
    /\ IF dst.kind = "nil" THEN Fail("graphics: dst is nil")
       ELSE IF src.kind = "nil" THEN Fail("graphics: src is nil")
       ELSE Enter(mat) /\ UNCHANGED built
    /\ hist' = Append(hist, "Transform")
    /\ UNCHANGED <<dst, src, heap0, order, calls, regs>>

TransformCenter ==
    /\ pc = "idle"
    /\ IF dst.kind = "nil" THEN Fail("graphics: dst is nil")
       ELSE IF src.kind = "nil" THEN Fail("graphics: src is nil")
       ELSE /\ Enter(CenterFit(mat, Bounds(dst), Bounds(src)))
            /\ built' = Append(built, <<"CenterFit", Bounds(dst), Bounds(src)>>)
    /\ hist' = Append(hist, "TransformCenter")
    /\ UNCHANGED <<dst, src, heap0, order, calls, regs>>

\* One iteration of the pixel loop (lines 62-69).
LoopStep ==
    /\ pc = "loop"
    /\ \E p \in pending :
        /\ order = "rowmajor" => p = RowMajorFirst(pending)
        /\ LET s == pt(mat, p[1], p[2])
           IN  IF inBounds(Bounds(src), s[1], s[2])
               THEN /\ heap' \in binterpRGBA(heap, DstRgba, p[1], p[2], SrcRgba, s[1], s[2])
                    /\ calls' = calls \cup {<<p[1], p[2], s[1], s[2]>>}
                    /\ writes' = [writes EXCEPT ![p] = @ + 1]
               ELSE UNCHANGED <<heap, calls, writes>>
        /\ pending' = pending \ {p}
    /\ UNCHANGED <<mat, dst, src, heap0, pc, err, order, built, regs, hist>>

\* The loop is over: the scratch buffer is copied back and nil is returned
\* (lines 71-75).
Return ==
    /\ pc = "loop"
    /\ pending = {}
    /\ heap' = IF dst.kind = "RGBA" THEN heap
               ELSE [heap EXCEPT ![dst.id] =
                        Draw(heap[dst.id], Bounds(dst), heap[DstRgba], Bounds(dst).Min)]
    /\ pc' = "done"
    /\ err' = "nil"
    /\ UNCHANGED <<mat, dst, src, heap0, pending, order, calls, writes, built, regs, hist>>

\* The rectangles of the images the calls are made with.
Rects == {Rect(0, 0, 2, 2), Rect(0, 0, MaxCoord + 1, 1), Rect(-1, 0, 1, 1)}

\* The matrices the calls are made on, as the chains that build them.
Chains ==
    {<<>>, <<<<"Translate", One, Zero>>>>, <<<<"Translate", FNeg(One), Half>>>>,
     <<<<"Rotate", "pi/2">>>>, <<<<"Scale", Two, Two>>>>,
     <<<<"Scale", Zero, One>>>>, <<<<"Scale", Zero, Zero>>>>,
     <<<<"Shear", One, One>>>>,
     <<<<"Shear", One, Zero>>, <<"Shear", One, One>>>>}
    \cup {<<<<"Rotate", t>>, <<"Center", Float(c[1]), Float(c[2])>>>> :
             t \in Angles, c \in {<<1, 1>>, <<1, 0>>}}

Kinds == {"nil", "RGBA", "other"}

Init ==
    /\ built \in Chains
    /\ mat = Build(built)
    /\ \E dk \in Kinds, sk \in Kinds, dr \in Rects, sr \in Rects,
          c \in {0, Sentinel}, alias \in BOOLEAN :
        /\ alias => dk = "RGBA" /\ sk = "RGBA" /\ dr = sr /\ c = 0
        /\ dk = "nil" => dr = Rect(0, 0, 2, 2) /\ c = 0
        /\ sk = "nil" => sr = Rect(0, 0, 2, 2)
        /\ src = IF sk = "nil" THEN NilImage ELSE [kind |-> sk, id |-> 2, Rect |-> sr]
        /\ dst = IF dk = "nil" THEN NilImage
                 ELSE IF alias THEN src
                 ELSE [kind |-> dk, id |-> 1, Rect |-> dr]
        /\ heap = (1 :> Fill(dr, c)) @@ (2 :> Pattern(sr))
    /\ heap0 = heap
    /\ pc = "idle"
    /\ err = "none"
    /\ pending = {}
    /\ order \in {"rowmajor", "any"}
    /\ calls = {}
    /\ writes = <<>>
    /\ regs = <<>>
    /\ hist = <<>>

Next ==
    \/ Transform
    \/ TransformCenter
    \/ LoopStep
    \/ Return

Spec == Init /\ [][Next]_vars

----------------------------------------------------------------------------
(* The pipeline's properties *)

\* The call returned nil.
ReturnedNil == pc = "done" /\ err = "nil"

\* The call returned an error.
ReturnedError == pc = "done" /\ err \notin {"none", "nil"}

AllFinite(m) == \A i \in 0..8 : IsFinite(m[i])

\* min <= v < max, on exact values
Within(v, min, max) == IsFinite(v) /\ min * v[2] <= v[1] /\ v[1] < max * v[2]

\* The point (sx, sy) lies in the half-open rectangle r.
InRect(r, sx, sy) == Within(sx, r.Min.X, r.Max.X) /\ Within(sy, r.Min.Y, r.Max.Y)

\* The image of the continuous point (x, y) under the matrix
MapPoint(m, x, y) ==
    <<FAdd(FAdd(FMul(x, m[0]), FMul(y, m[1])), m[2]),
      FAdd(FAdd(FMul(x, m[3]), FMul(y, m[4])), m[5])>>

\* The pixel loop of Transform run in the order the code runs it, rows then
\* columns, from heap h over the pixels ps.
RECURSIVE RowMajorLoop(_, _)
RowMajorLoop(h, ps) ==
    IF ps = {} THEN h
    ELSE LET p == RowMajorFirst(ps)
             s == pt(mat, p[1], p[2])
         IN  RowMajorLoop(
                 IF inBounds(Bounds(src), s[1], s[2])
                 THEN CHOOSE h2 \in binterpRGBA(h, DstRgba, p[1], p[2], SrcRgba, s[1], s[2]) : TRUE
                 ELSE h,
                 ps \ {p})

\* The heap Transform leaves when it is run on the heap of the call.
RowMajorTransform ==
    LET h == RowMajorLoop(Prepare(heap0), Points(Bounds(dst)))
    IN  IF dst.kind = "RGBA" THEN h
        ELSE [h EXCEPT ![dst.id] = Draw(h[dst.id], Bounds(dst), h[DstRgba], Bounds(dst).Min)]

\* C1: after Transform returns nil, every destination pixel whose
\* transformed centre lies outside the source bounds holds the value it had
\* before the call, whatever the kind of the destination image.
C1_OutOfBoundsPixelsUntouched ==
    ReturnedNil =>
        \A p \in Points(Bounds(dst)) :
            LET s == pt(mat, p[1], p[2])
            IN  ~InRect(Bounds(src), s[1], s[2]) /\ ~IsNaN(s[1]) /\ ~IsNaN(s[2])
                    => heap[dst.id][p] = heap0[dst.id][p]

\* C2: a call with a nil dst or a nil src returns an error and writes
\* nothing; an error is returned only before the first write, and nil only
\* after the whole loop has run.
C2_NilFailsBeforeAnyWrite ==
    /\ (pc # "idle" /\ (dst.kind = "nil" \/ src.kind = "nil")) => ReturnedError
    /\ err \notin {"none", "nil"} =>
          /\ pc = "done"
          /\ dst.kind = "nil" \/ src.kind = "nil"
          /\ heap = heap0
          /\ calls = {}
          /\ mat = Build(built)
    /\ pc = "done" => err # "none"
    /\ ReturnedNil =>
          /\ pending = {}
          /\ dst.kind # "nil" /\ src.kind # "nil"
          /\ \A p \in Points(Bounds(dst)) : writes[p] <= 1

\* C2's case: TransformCenter was called with a destination and a nil
\* source, and has returned.
C2_Witness ==
    /\ pc = "done"
    /\ hist = <<"TransformCenter">>
    /\ dst.kind = "other"
    /\ src.kind = "nil"
    /\ err = "graphics: src is nil"

\* C3: the identity matrix, with dst and src of equal bounds in distinct
\* buffers, leaves every destination pixel equal to the source pixel at the
\* same place; each pixel's sampler call is made at the pixel's centre, and
\* each pixel is written exactly once.
C3_IdentityCopiesSource ==
    (ReturnedNil /\ mat = I /\ Bounds(dst) = Bounds(src) /\ dst.id # src.id) =>
        \A p \in Points(Bounds(dst)) :
            /\ heap[dst.id][p] = heap0[src.id][p]
            /\ writes[p] = 1
            /\ \A c \in calls :
                  (c[1] = p[1] /\ c[2] = p[2]) =>
                      c[3] = F(2 * p[1] + 1, 2) /\ c[4] = F(2 * p[2] + 1, 2)

\* C3's case: the 2x2 source [[1,2],[3,4]] was transformed by I into a
\* zeroed 2x2 destination.
C3_Witness ==
    /\ ReturnedNil
    /\ mat = I
    /\ hist = <<"Transform">>
    /\ dst.id # src.id
    /\ Bounds(dst) = Rect(0, 0, 2, 2)
    /\ Bounds(src) = Rect(0, 0, 2, 2)
    /\ heap0[dst.id] = Fill(Rect(0, 0, 2, 2), 0)
    /\ heap[dst.id] = (<<0, 0>> :> 1) @@ (<<1, 0>> :> 2) @@ (<<0, 1>> :> 3) @@ (<<1, 1>> :> 4)

\* C4: the sampler is only ever invoked with a finite source coordinate
\* inside the half-open source bounds, degenerate matrices included.
C4_SamplerCoordinatesInBounds ==
    \A c \in calls : InRect(Bounds(src), c[3], c[4])

\* C5: the destination Transform leaves does not depend on the order in
\* which the pixels are visited: under any schedule it is what the row-major
\* loop leaves, also when dst and src are the same buffer.  (Stated on
\* matrices with finite entries, for which the sampler's result is
\* specified.)
C5_OrderIndependent ==
    (ReturnedNil /\ AllFinite(mat)) => heap[dst.id] = RowMajorTransform[dst.id]

\* The chain is I.Rotate(t).Center(cx, cy) with an integer centre inside
\* equal dst and src bounds, applied by Transform to distinct buffers.
RotatedAboutPixel ==
    /\ Len(built) = 2
    /\ built[1][1] = "Rotate"
    /\ built[2][1] = "Center"
    /\ dst.kind # "nil" /\ src.kind # "nil"
    /\ dst.id # src.id
    /\ Bounds(dst) = Bounds(src)
    /\ <<Floor(built[2][2]), Floor(built[2][3])>> \in Points(Bounds(dst))

\* C8 as claimed: with a rotation R by a multiple of a quarter turn,
\* Transform with R.Center(cx, cy) leaves the pixel at (cx, cy) unchanged:
\* pt maps it into source pixel (cx, cy).
C8_CentrePixelUnchanged ==
    (ReturnedNil /\ RotatedAboutPixel /\ built[1][2] \in {"0", "pi/2", "pi", "3pi/2"}) =>
        LET cx == Floor(built[2][2])
            cy == Floor(built[2][3])
            s == pt(mat, cx, cy)
        IN  /\ InRect(Rect(cx, cy, cx + 1, cy + 1), s[1], s[2])
            /\ heap[dst.id][<<cx, cy>>] = heap0[src.id][<<cx, cy>>]

\* C8 amended: R.Center(cx, cy) fixes the continuous point (cx, cy), the
\* corner of pixel (cx, cy), not its centre: pt maps pixel (cx, cy) to
\* (cx + (cos + sin)/2, cy + (cos - sin)/2), which lies in source pixel
\* (cx, cy), leaving the pixel unchanged, exactly when cos >= |sin|; of the
\* quarter turns only the zero turn does.
C8_CentreFixesCorner ==
    (Len(built) >= 2 /\ built[1][1] = "Rotate" /\ built[2][1] = "Center"
        /\ Len(built) = 2) =>
        LET x == built[2][2]
            y == built[2][3]
            sn == Sincos(built[1][2])[1]
            cs == Sincos(built[1][2])[2]
            s == pt(mat, Floor(x), Floor(y))
            inside == FGe(cs, sn) /\ FGe(cs, FNeg(sn))
        IN  /\ MapPoint(mat, x, y) = <<x, y>>
            /\ s[1] = FAdd(x, FMul(Half, FAdd(cs, sn)))
            /\ s[2] = FAdd(y, FMul(Half, FSub(cs, sn)))
            /\ inside <=> InRect(Rect(Floor(x), Floor(y), Floor(x) + 1, Floor(y) + 1), s[1], s[2])
            /\ (ReturnedNil /\ RotatedAboutPixel /\ inside) =>
                  heap[dst.id][<<Floor(x), Floor(y)>>] = heap0[src.id][<<Floor(x), Floor(y)>>]
            /\ (built[1][2] \in {"pi/2", "pi", "3pi/2"}) => ~inside

\* C8's case: Transform has run with a rotation by atan(3/4) about (1, 1)
\* on 2x2 images, and pixel (1, 1) holds the source's pixel (1, 1).
C8_Witness ==
    /\ ReturnedNil
    /\ RotatedAboutPixel
    /\ built = <<<<"Rotate", "atan(3/4)">>, <<"Center", One, One>>>>
    /\ hist = <<"Transform">>
    /\ heap0[dst.id][<<1, 1>>] = Sentinel
    /\ heap[dst.id][<<1, 1>>] = heap0[src.id][<<1, 1>>]

----------------------------------------------------------------------------
(* The matrix algebra: chains of operations *)

\* The longest chain of operations applied to a matrix.
MaxOps == 3

\* No call is under way.
NoCall ==
    /\ dst = NilImage
    /\ src = NilImage
    /\ heap = <<>>
    /\ heap0 = <<>>
    /\ pc = "idle"
    /\ err = "none"
    /\ pending = {}
    /\ order = "rowmajor"
    /\ calls = {}
    /\ writes = <<>>

callVars == <<dst, src, heap, heap0, pc, err, pending, order, calls, writes>>

\* A matrix of integers, row by row.
IntMatrix(t) == Affine([i \in 1..9 |-> Float(t[i])])

\* The matrices a chain starts from: I and a matrix that is not affine.
Seeds == {I, IntMatrix(<<1, 2, 0, 0, 1, 3, 2, -1, 1>>)}

ScaleArgs == {<<Two, Half>>, <<Zero, One>>}

RotateArgs == {"pi/2", "atan(3/4)"}

ShearArgs == {<<One, Two>>, <<One, One>>}

TranslateArgs == {<<One, FNeg(Two)>>, <<FNeg(One), Two>>}

CenterArgs == {<<One, Two>>}

\* <<dst, src>> rectangles: even and odd sizes, at different places.
FitArgs == {<<Rect(0, 0, 2, 2), Rect(1, -1, 4, 2)>>,
            <<Rect(1, -1, 4, 2), Rect(-2, 1, 1, 3)>>,
            <<Rect(-2, 1, 1, 3), Rect(0, 0, 2, 2)>>}

\* a = a.op(...)
Step(op) ==
    /\ mat' = ApplyOp(mat, op)
    /\ built' = Append(built, op)
    /\ hist' = Append(hist, mat')
    /\ UNCHANGED regs
    /\ UNCHANGED callVars

DoScale ==
    \E v \in ScaleArgs :
        /\ Len(built) < MaxOps
        /\ Step(<<"Scale", v[1], v[2]>>)

DoRotate ==
    \E t \in RotateArgs :
        /\ Len(built) < MaxOps
        /\ Step(<<"Rotate", t>>)

DoShear ==
    \E v \in ShearArgs :
        /\ Len(built) < MaxOps
        /\ Step(<<"Shear", v[1], v[2]>>)

DoTranslate ==
    \E v \in TranslateArgs :
        /\ Len(built) < MaxOps
        /\ Step(<<"Translate", v[1], v[2]>>)

DoCenter ==
    \E v \in CenterArgs :
        /\ Len(built) < MaxOps
        /\ Step(<<"Center", v[1], v[2]>>)

DoCenterFit ==
    \E v \in FitArgs :
        /\ Len(built) < MaxOps
        /\ Step(<<"CenterFit", v[1], v[2]>>)

\* a = a.Mul(b), b the matrix the chain's first operation gave
DoMul ==
    /\ Len(built) < MaxOps
    /\ hist # <<>>
    /\ Step(<<"Mul", hist[1]>>)

InitAlgebra ==
    /\ mat \in Seeds
    /\ built = <<>>
    /\ hist = <<>>
    /\ regs = [seed |-> mat]
    /\ NoCall

NextAlgebra ==
    \/ DoScale
    \/ DoRotate
    \/ DoShear
    \/ DoTranslate
    \/ DoCenter
    \/ DoCenterFit
    \/ DoMul

SpecAlgebra == InitAlgebra /\ [][NextAlgebra]_vars

\* The matrix operation k of the chain was applied to.
Before(k) == IF k = 1 THEN regs.seed ELSE hist[k - 1]

\* No operation of the chain has a degenerate argument: a zero scale factor,
\* or shear slopes whose product is 1.
NonDegenerate ==
    \A k \in 1..Len(built) :
        /\ built[k][1] = "Scale" => built[k][2] # Zero /\ built[k][3] # Zero
        /\ built[k][1] = "Shear" => FMul(built[k][2], built[k][3]) # One

BottomRow(m) == <<m[6], m[7], m[8]>>

\* C6: every matrix reached from I by Mul, Scale, Rotate, Shear, Translate,
\* Center and CenterFit with non-degenerate arguments has bottom row (0,0,1).
C6_BottomRowIsAffine ==
    (regs.seed = I /\ NonDegenerate) =>
        /\ BottomRow(mat) = <<Zero, Zero, One>>
        /\ \A k \in 1..Len(hist) : BottomRow(hist[k]) = <<Zero, Zero, One>>

\* C6's case: a chain from I of a shear, a translation and a product with
\* the sheared matrix.
C6_Witness ==
    /\ regs.seed = I
    /\ NonDegenerate
    /\ Len(built) = 3
    /\ built[1][1] = "Shear"
    /\ built[2][1] = "Translate"
    /\ built[3] = <<"Mul", hist[1]>>
    /\ mat[2] # Zero

\* The centre of a rectangle: (Min + Max) / 2
Centre(r) == <<F(r.Min.X + r.Max.X, 2), F(r.Min.Y + r.Max.Y, 2)>>

\* C9: for a matrix A with zero translation entries and bottom row (0,0,1),
\* A.CenterFit(dst, src) maps the centre of dst to the centre of src, and
\* equals I.Translate(-srcCentre).Mul(A).Translate(dstCentre).
C9_CenterFitAlignsCentres ==
    \A k \in 1..Len(built) :
        (/\ built[k][1] = "CenterFit"
         /\ AllFinite(Before(k))
         /\ Before(k)[2] = Zero /\ Before(k)[5] = Zero
         /\ BottomRow(Before(k)) = <<Zero, Zero, One>>) =>
            LET d == Centre(built[k][2])
                s == Centre(built[k][3])
            IN  /\ MapPoint(hist[k], d[1], d[2]) = s
                /\ hist[k] = Translate(Mul(Translate(I, FNeg(s[1]), FNeg(s[2])), Before(k)),
                                       d[1], d[2])

\* C9's case: CenterFit was applied to a rotated, scaled matrix with
\* rectangles of odd and even sizes at different places.
C9_Witness ==
    /\ Len(built) = 3
    /\ built[1][1] = "Rotate"
    /\ built[2][1] = "Scale"
    /\ built[3] = <<"CenterFit", Rect(1, -1, 4, 2), Rect(-2, 1, 1, 3)>>
    /\ MapPoint(mat, F(5, 2), F(1, 2)) = <<F(-1, 2), Two>>

\* C10: A.Translate(dx, dy).Translate(-dx, -dy) equals A, for every matrix A
\* with finite entries.
C10_TranslateRoundTrip ==
    \A k \in 2..Len(built) :
        (/\ built[k - 1][1] = "Translate"
         /\ built[k] = <<"Translate", FNeg(built[k - 1][2]), FNeg(built[k - 1][3])>>
         /\ AllFinite(Before(k - 1))) =>
            hist[k] = Before(k - 1)

\* C10's case: a matrix that is not affine was translated there and back.
C10_Witness ==
    /\ Len(built) = 3
    /\ built[1][1] = "Rotate"
    /\ built[2] = <<"Translate", One, FNeg(Two)>>
    /\ built[3] = <<"Translate", FNeg(One), Two>>
    /\ BottomRow(regs.seed) # <<Zero, Zero, One>>
    /\ hist[2] # hist[1]
    /\ mat = hist[1]

----------------------------------------------------------------------------
(* The matrix product of three matrices, both ways *)

None == <<>>

\* 3x3 matrices, affine or not, with integer and rational entries.
Matrices ==
    Seeds \cup
    {IntMatrix(<<2, -1, 3, 1, 0, -2, 0, 0, 1>>),
     IntMatrix(<<0, 1, 0, -1, 0, 0, 0, 0, 1>>),
     IntMatrix(<<1, 1, 1, 1, 1, 1, 1, 1, 1>>),
     IntMatrix(<<0, 0, 2, 0, -3, 0, 1, 0, 0>>),
     Scale(Translate(I, Half, One), Two, F(-3, 1))}

MulAB ==
    /\ regs.AB = None
    /\ regs' = [regs EXCEPT !.AB = Mul(regs.A, regs.B)]
    /\ UNCHANGED <<mat, built, hist>>
    /\ UNCHANGED callVars

MulBC ==
    /\ regs.BC = None
    /\ regs' = [regs EXCEPT !.BC = Mul(regs.B, regs.C)]
    /\ UNCHANGED <<mat, built, hist>>
    /\ UNCHANGED callVars

\* A.Mul(B).Mul(C)
MulLeft ==
    /\ regs.AB # None
    /\ regs.L = None
    /\ regs' = [regs EXCEPT !.L = Mul(regs.AB, regs.C)]
    /\ UNCHANGED <<mat, built, hist>>
    /\ UNCHANGED callVars

\* A.Mul(B.Mul(C))
MulRight ==
    /\ regs.BC # None
    /\ regs.R = None
    /\ regs' = [regs EXCEPT !.R = Mul(regs.A, regs.BC)]
    /\ UNCHANGED <<mat, built, hist>>
    /\ UNCHANGED callVars

InitMul ==
    /\ \E ma \in Matrices, mb \in Matrices, mc \in Matrices :
          regs = [A |-> ma, B |-> mb, C |-> mc, AB |-> None, BC |-> None,
                  L |-> None, R |-> None]
    /\ mat = I
    /\ built = <<>>
    /\ hist = <<>>
    /\ NoCall

NextMul ==
    \/ MulAB
    \/ MulBC
    \/ MulLeft
    \/ MulRight

SpecMul == InitMul /\ [][NextMul]_vars

\* C7: A.Mul(B).Mul(C) equals A.Mul(B.Mul(C)) element by element, for
\* matrices that need not be affine.
C7_MulAssociative ==
    (regs.L # None /\ regs.R # None) => \A i \in 0..8 : FEq(regs.L[i], regs.R[i])

\* C7's case: both products were computed from three different matrices, one
\* of them not affine, whose product depends on the order of the factors.
C7_Witness ==
    /\ regs.L # None
    /\ regs.R # None
    /\ BottomRow(regs.B) # <<Zero, Zero, One>>
    /\ Cardinality({regs.A, regs.B, regs.C}) = 3
    /\ Mul(regs.AB, regs.C) # Mul(regs.C, regs.AB)
    /\ regs.L # I

====
